---- MODULE Spec2Model ----
(***************************************************************************)
(* The source cursor of the glass-easel template compiler                  *)
(* (glass-easel-template-compiler/src/parse/mod.rs): ParseState, its       *)
(* cursor primitives, the backtracking combinator and the diagnostics      *)
(* list.                                                                   *)
(*                                                                         *)
(* A source text (&str) is a sequence of UTF-8 bytes (0..255); a slice is  *)
(* a sub-sequence.  Option<T> is a sequence: None is <<>>, Some(x) is      *)
(* <<x>>.  A closure passed to try_parse / parse_on_auto_whitespace /      *)
(* parse_off_auto_whitespace is the run of actions between the call and    *)
(* its return; the calls in progress are the stack `frames`.               *)
(***************************************************************************)
EXTENDS Integers, Sequences, FiniteSets, TLC

VARIABLES
    path,                   \* ParseState.path
    whole_str,              \* ParseState.whole_str: the source, UTF-8 bytes
    cur_index,              \* ParseState.cur_index: byte offset
    line,                   \* ParseState.line (u32)
    utf16_col,              \* ParseState.utf16_col (u32)
    scopes,                 \* ParseState.scopes
    inside_dynamic_tree,    \* ParseState.inside_dynamic_tree
    auto_skip_whitespace,   \* ParseState.auto_skip_whitespace
    warnings,               \* ParseState.warnings
    frames,                 \* the closures in progress, innermost last
    last,                   \* the last call: op, arg, ret, the session before
                            \* it (pre) and, of a wrapper, as f left it (left)
    panicked                \* a slice index check failed: the thread unwinds

vars == <<path, whole_str, cur_index, line, utf16_col, scopes,
          inside_dynamic_tree, auto_skip_whitespace, warnings, frames, last,
          panicked>>

-----------------------------------------------------------------------------
(* Bounds of the model.                                                    *)

\* the enumerated sources hold at most MaxChars characters
MaxChars == 1
\* at most MaxDepth closures are in progress at once
MaxDepth == 2
\* at most MaxWarnings diagnostics are recorded in one session
MaxWarnings == 2
\* peek_n::<N> and peek::<I> are instantiated for N, I in 0..MaxPeek
MaxPeek == 2
\* the width in bits of the position integers (u32 in the source, scaled)
U32_BITS == 6
\* at most MaxScopes bindings are on the scope stack, and the scan is inside
\* at most MaxScopes nested dynamic regions
MaxScopes == 1

-----------------------------------------------------------------------------
(* Characters and texts, as UTF-8.                                         *)

None == <<>>
Some(x) == <<x>>

RECURSIVE Pow2(_)
Pow2(n) == IF n = 0 THEN 1 ELSE 2 * Pow2(n - 1)

\* u32::MAX at the model's width
U32_MAX == Pow2(U32_BITS) - 1

\* `x as u32` and u32 arithmetic (wrapping)
AsU32(x) == x % (U32_MAX + 1)

Min(a, b) == IF a < b THEN a ELSE b

\* the characters the enumerated sources are made of
CH_x == <<120>>
CH_space == <<32>>
CH_lf == <<10>>
CH_lbrace == <<123>>
CH_eacute == <<195, 169>>
CH_ideographic_space == <<227, 128, 128>>
CH_emoji == <<240, 159, 152, 128>>

Alphabet == {CH_space, CH_lf, CH_lbrace, CH_emoji}

RECURSIVE Texts(_)
Texts(n) ==
    IF n = 0 THEN {<<>>}
    ELSE LET shorter == Texts(n - 1)
         IN  shorter \cup {t \o ch : t \in shorter, ch \in Alphabet}

\* "  abc{{until}}"
SRC_until == <<32, 32, 97, 98, 99, 123, 123, 117, 110, 116, 105, 108, 125, 125>>
\* "{{{"
SRC_braces3 == <<123, 123, 123>>
\* "{{x"
SRC_braces2x == <<123, 123, 120>>
\* "a\n" emoji "b {"
SRC_emoji_line == <<97, 10>> \o CH_emoji \o <<98, 32, 123>>

\* "\n" emoji "{"
SRC_line_emoji_brace == CH_lf \o CH_emoji \o CH_lbrace
\* e-acute, ideographic space, "{"
SRC_wide_blank_brace == CH_eacute \o CH_ideographic_space \o CH_lbrace

\* the text of n times the character ch
RECURSIVE Repeat(_, _)
Repeat(ch, n) == IF n = 0 THEN <<>> ELSE ch \o Repeat(ch, n - 1)

\* str::len
StrLen(s) == Len(s)

\* &s[from..]  (byte offsets, zero-based)
SliceFrom(s, from) == SubSeq(s, from + 1, Len(s))

\* &s[..to]
SliceTo(s, to) == SubSeq(s, 1, to)

\* a UTF-8 continuation byte 10xxxxxx
IsContinuation(b) == b >= 128 /\ b < 192

\* str::is_char_boundary
is_char_boundary(s, i) ==
    \/ i = 0
    \/ i = Len(s)
    \/ i > 0 /\ i < Len(s) /\ ~IsContinuation(s[i + 1])

\* the byte length of the character whose first byte is b
Utf8Width(b) ==
    IF b < 128 THEN 1 ELSE IF b < 224 THEN 2 ELSE IF b < 240 THEN 3 ELSE 4

\* the code point of the character that starts at byte offset i of s
DecodeAt(s, i) ==
    LET b == s[i + 1]
        c(k) == s[i + 1 + k] % 64
    IN  CASE Utf8Width(b) = 1 -> b
          [] Utf8Width(b) = 2 -> (b % 32) * 64 + c(1)
          [] Utf8Width(b) = 3 -> ((b % 16) * 64 + c(1)) * 64 + c(2)
          [] OTHER            -> (((b % 8) * 64 + c(1)) * 64 + c(2)) * 64 + c(3)

\* str::char_indices: the pairs <<byte offset, code point>>, in order
RECURSIVE CharIndicesFrom(_, _)
CharIndicesFrom(s, i) ==
    IF i >= Len(s) THEN <<>>
    ELSE <<<<i, DecodeAt(s, i)>>>> \o CharIndicesFrom(s, i + Utf8Width(s[i + 1]))

char_indices(s) == CharIndicesFrom(s, 0)

\* str::chars
chars(s) == [k \in 1..Len(char_indices(s)) |-> char_indices(s)[k][2]]

\* counting characters, not code units
CharLenUtf16_one(cp) == 1

\* char::encode_utf16(..).len(): the UTF-16 code units of one character
CharLenUtf16(cp) == IF cp >= 65536 THEN 2 ELSE 1

\* str::encode_utf16().count()
RECURSIVE SumUtf16(_)
SumUtf16(cps) ==
    IF cps = <<>> THEN 0 ELSE CharLenUtf16(Head(cps)) + SumUtf16(Tail(cps))

encode_utf16_count(s) == SumUtf16(chars(s))

\* char::is_whitespace (the Unicode White_Space property)
is_whitespace(cp) ==
    \/ cp \in 9..13
    \/ cp \in {32, 133, 160, 5760, 8232, 8233, 8239, 8287, 12288}
    \/ cp \in 8192..8202

\* the number of b'\n' bytes of s
NewlineCount(s) == Cardinality({i \in 1..Len(s) : s[i] = 10})

\* str::rfind('\n'): the byte offset of the last newline (one is present)
rfind_newline(s) ==
    CHOOSE i \in 0..(Len(s) - 1) :
        s[i + 1] = 10 /\ \A j \in (i + 1)..(Len(s) - 1) : s[j + 1] # 10

\* str::starts_with
starts_with(s, p) == Len(p) <= Len(s) /\ SubSeq(s, 1, Len(p)) = p

\* str::find: Some(byte offset of the first occurrence) or None
RECURSIVE FindFrom(_, _, _)
FindFrom(s, p, i) ==
    IF i + Len(p) > Len(s) THEN None
    ELSE IF SubSeq(s, i + 1, i + Len(p)) = p THEN Some(i)
    ELSE FindFrom(s, p, i + 1)

find(s, p) == FindFrom(s, p, 0)

-----------------------------------------------------------------------------
(* ParseState's methods.  c is the cursor [cur_index, line, utf16_col]; a  *)
(* method with a result yields [c |-> the cursor it leaves, ret |-> ...].  *)

Cursor == [cur_index |-> cur_index, line |-> line, utf16_col |-> utf16_col]

\* Range<Position>
Span(from, to) == [start |-> from, end |-> to]

\* ParseState::new: the text kept, and the fields of the fresh session
NewText(content, max) ==
    IF StrLen(content) >= max THEN SliceTo(content, max - 1) ELSE content

NewCursor == [cur_index |-> 0, line |-> 1, utf16_col |-> 0]

\* the slice in ParseState::new needs its end on a character boundary
NewPanics(content, max) ==
    StrLen(content) >= max /\ ~is_char_boundary(content, max - 1)

cur_str(c) == SliceFrom(whole_str, c.cur_index)

ended(c) == StrLen(cur_str(c)) = 0

position(c) == [line |-> c.line, utf16_col |-> c.utf16_col]

\* the slice &self.cur_str()[..count] of skip_bytes panics
skip_bytes_panics(c, count) ==
    count > StrLen(cur_str(c)) \/ ~is_char_boundary(cur_str(c), count)

skip_bytes(c, count) ==
    LET skipped == SliceTo(cur_str(c), count)
        line_wrap_count == NewlineCount(skipped)
    IN  [cur_index |-> c.cur_index + count,
         line      |-> AsU32(c.line + AsU32(line_wrap_count)),
         utf16_col |->
            IF line_wrap_count > 0
            THEN LET last_line_start == rfind_newline(skipped) + 1
                 IN  AsU32(encode_utf16_count(SliceFrom(skipped, last_line_start)))
            ELSE AsU32(c.utf16_col + AsU32(encode_utf16_count(skipped)))]

skip_until_before(c, until) ==
    LET s == cur_str(c)
        found == find(s, until)
    IN  IF found # None
        THEN [c |-> skip_bytes(c, found[1]), ret |-> Some(SliceTo(s, found[1]))]
        ELSE [c |-> skip_bytes(c, StrLen(s)), ret |-> None]

skip_until_after(c, until) ==
    LET r == skip_until_before(c, until)
    IN  IF r.ret # None
        THEN [c |-> skip_bytes(r.c, StrLen(until)), ret |-> r.ret]
        ELSE r

\* the loop of skip_whitespace over s.char_indices(), from its k-th item:
\* the break value, line and utf16_col as the loop leaves them, start_pos
RECURSIVE SkipWhitespaceLoop(_, _, _, _, _)
SkipWhitespaceLoop(s, k, ln, col, start_pos) ==
    LET i == char_indices(s)
    IN  IF k > Len(i)
        THEN [brk |-> StrLen(s), line |-> ln, utf16_col |-> col, start_pos |-> start_pos]
        ELSE IF ~is_whitespace(i[k][2])
        THEN [brk |-> i[k][1], line |-> ln, utf16_col |-> col, start_pos |-> start_pos]
        ELSE LET sp == IF start_pos = None
                       THEN Some([line |-> ln, utf16_col |-> col])
                       ELSE start_pos
             IN  IF i[k][2] = 10
                 THEN SkipWhitespaceLoop(s, k + 1, AsU32(ln + 1), 0, sp)
                 ELSE SkipWhitespaceLoop(s, k + 1, ln,
                                         AsU32(col + CharLenUtf16(i[k][2])), sp)

\* skip_whitespace that takes start_pos when the loop is over
skip_whitespace_late_start(c) ==
    LET r == SkipWhitespaceLoop(cur_str(c), 1, c.line, c.utf16_col, None)
        after == [cur_index |-> c.cur_index + r.brk, line |-> r.line,
                  utf16_col |-> r.utf16_col]
    IN  [c   |-> after,
         ret |-> IF r.start_pos = None THEN None
                 ELSE Some(Span(position(after), position(after)))]

skip_whitespace(c) ==
    LET r == SkipWhitespaceLoop(cur_str(c), 1, c.line, c.utf16_col, None)
        after == [cur_index |-> c.cur_index + r.brk, line |-> r.line,
                  utf16_col |-> r.utf16_col]
    IN  [c   |-> after,
         ret |-> IF r.start_pos = None THEN None
                 ELSE Some(Span(r.start_pos[1], position(after)))]

\* the toggle ignored: whitespace is never skipped before a lookahead
AutoSkip_ignored(c) == c

\* `if self.auto_skip_whitespace { self.skip_whitespace(); }`
AutoSkip(c) == IF auto_skip_whitespace THEN skip_whitespace(c).c ELSE c

peek_chars(c) == [c |-> AutoSkip(c), ret |-> chars(cur_str(AutoSkip(c)))]

\* peek_n that fails only on an empty iterator
peek_n_short(c, N) ==
    LET iter == peek_chars(c)
    IN  [c   |-> iter.c,
         ret |-> IF N > 0 /\ iter.ret = <<>>
                 THEN None
                 ELSE Some(SubSeq(iter.ret, 1, Min(N, Len(iter.ret))))]

peek_n(c, N) ==
    LET iter == peek_chars(c)
    IN  [c   |-> iter.c,
         ret |-> IF \E i \in 0..(N - 1) : i >= Len(iter.ret)
                 THEN None
                 ELSE Some(SubSeq(iter.ret, 1, N))]

peek(c, I) ==
    LET iter == peek_chars(c)
    IN  [c   |-> iter.c,
         ret |-> IF I >= Len(iter.ret) THEN None ELSE Some(iter.ret[I + 1])]

peek_str(c, s) == [c |-> AutoSkip(c), ret |-> starts_with(cur_str(AutoSkip(c)), s)]

\* consume_str_except_followed that never looks at what follows
consume_str_except_followed_unguarded(c, s, excepts) ==
    LET p == peek_str(c, s)
    IN  IF ~p.ret THEN [c |-> p.c, ret |-> None]
        ELSE LET start == position(p.c)
                 after == skip_bytes(p.c, StrLen(s))
             IN  [c |-> after, ret |-> Some(Span(start, position(after)))]

consume_str_except_followed(c, s, excepts) ==
    LET p == peek_str(c, s)
    IN  IF ~p.ret THEN [c |-> p.c, ret |-> None]
        ELSE LET s_followed == SliceFrom(cur_str(p.c), StrLen(s))
             IN  IF \E k \in 1..Len(excepts) : starts_with(s_followed, excepts[k])
                 THEN [c |-> p.c, ret |-> None]
                 ELSE LET start == position(p.c)
                          after == skip_bytes(p.c, StrLen(s))
                      IN  [c |-> after, ret |-> Some(Span(start, position(after)))]

\* reject_followed is the set of the code points the predicate rejects
consume_str_except_followed_char(c, s, reject_followed) ==
    LET p == peek_str(c, s)
    IN  IF ~p.ret THEN [c |-> p.c, ret |-> None]
        ELSE LET s_followed == SliceFrom(cur_str(p.c), StrLen(s))
             IN  IF chars(s_followed) # <<>> /\ chars(s_followed)[1] \in reject_followed
                 THEN [c |-> p.c, ret |-> None]
                 ELSE LET start == position(p.c)
                          after == skip_bytes(p.c, StrLen(s))
                      IN  [c |-> after, ret |-> Some(Span(start, position(after)))]

consume_str(c, s) == consume_str_except_followed(c, s, <<>>)

\* the loop of next_char_as_str: the first i >= from + 1 on a boundary
RECURSIVE NextBoundary(_, _)
NextBoundary(s, from) ==
    IF is_char_boundary(s, from + 1) THEN from + 1 ELSE NextBoundary(s, from + 1)

\* next_char_as_str that hands out the character and stays where it is
next_char_as_str_stalls(c) ==
    LET s == cur_str(c)
    IN  IF StrLen(s) > 0
        THEN [c |-> c, ret |-> SliceTo(s, NextBoundary(s, 0))]
        ELSE [c |-> c, ret |-> <<>>]

\* next_char_as_str that takes a last single byte for the end of input
next_char_as_str_off_by_one(c) ==
    LET s == cur_str(c)
    IN  IF StrLen(s) > 1
        THEN LET i == NextBoundary(s, 0)
             IN  [c |-> skip_bytes(c, i), ret |-> SliceTo(s, i)]
        ELSE [c |-> c, ret |-> <<>>]

next_char_as_str(c) ==
    LET s == cur_str(c)
    IN  IF StrLen(s) > 0
        THEN LET i == NextBoundary(s, 0)
             IN  [c |-> skip_bytes(c, i), ret |-> SliceTo(s, i)]
        ELSE [c |-> c, ret |-> <<>>]

\* next that advances one byte, whatever the width of the character
next_bytewise(c) ==
    LET c1 == AutoSkip(c)
        i  == char_indices(cur_str(c1))
    IN  IF i = <<>> THEN [c |-> c1, ret |-> None]
        ELSE LET ch == i[1][2]
             IN  [c   |-> [cur_index |-> c1.cur_index + 1,
                           line      |-> IF ch = 10 THEN AsU32(c1.line + 1) ELSE c1.line,
                           utf16_col |-> IF ch = 10 THEN 0
                                         ELSE AsU32(c1.utf16_col + CharLenUtf16(ch))],
                  ret |-> Some(ch)]

next(c) ==
    LET c1 == AutoSkip(c)
        i  == char_indices(cur_str(c1))
    IN  IF i = <<>> THEN [c |-> c1, ret |-> None]
        ELSE LET ch == i[1][2]
                 adv == IF Len(i) >= 2 THEN i[2][1] ELSE StrLen(cur_str(c1))
             IN  [c   |-> [cur_index |-> c1.cur_index + adv,
                           line      |-> IF ch = 10 THEN AsU32(c1.line + 1) ELSE c1.line,
                           utf16_col |-> IF ch = 10 THEN 0
                                         ELSE AsU32(c1.utf16_col + CharLenUtf16(ch))],
                  ret |-> Some(ch)]

\* try_parse with one snapshot for all the calls in progress: a nested call
\* takes over the snapshot of the outermost one
try_parse_snapshot_shared(c) ==
    IF \E k \in 1..Len(frames) : frames[k].kind = "try_parse"
    THEN frames[CHOOSE k \in 1..Len(frames) : frames[k].kind = "try_parse"].saved
    ELSE [prev |-> c.cur_index, prev_line |-> c.line, prev_utf16_col |-> c.utf16_col]

\* try_parse: the snapshot it takes, and the cursor when f has returned ret
try_parse_snapshot(c) ==
    [prev |-> c.cur_index, prev_line |-> c.line, prev_utf16_col |-> c.utf16_col]

\* try_parse that forgets to restore the column
try_parse_return_keeps_col(c, snap, ret) ==
    IF ret = None
    THEN [cur_index |-> snap.prev, line |-> snap.prev_line, utf16_col |-> c.utf16_col]
    ELSE c

try_parse_return(c, snap, ret) ==
    IF ret = None
    THEN [cur_index |-> snap.prev, line |-> snap.prev_line,
          utf16_col |-> snap.prev_utf16_col]
    ELSE c

\* impl Display for ParseError: the four numbers it prints
DisplayLocation(location) ==
    <<location.start.line + 1, location.start.utf16_col + 1,
      location.end.line + 1, location.end.utf16_col + 1>>

\* enum ParseErrorKind: its 28 members
ParseErrorKinds ==
    {"UnexpectedCharacter", "UnexpectedExpressionCharacter", "UnrecognizedTag",
     "MissingExpressionEnd", "IllegalEntity", "IncompleteTag", "MissingEndTag",
     "IllegalNamePrefix", "InvalidAttributePrefix", "InvalidAttributeName",
     "InvalidAttributeValue", "InvalidAttribute", "DuplicatedAttribute",
     "DuplicatedName", "AvoidUppercaseLetters", "UnexpectedWhitespace",
     "MissingAttributeValue", "DataBindingNotAllowed", "InvalidIdentifier",
     "InvalidScopeName", "ChildNodesNotAllowed", "IllegalEscapeSequence",
     "IncompleteConditionExpression", "UnmatchedBracket",
     "UnmatchedParenthesis", "MissingModuleName", "MissingSourcePath",
     "UnsupportedSyntax"}

\* ParseErrorKind::level: the match, arm by arm
level(kind) ==
    CASE kind = "UnexpectedCharacter"            -> "Fatal"
      [] kind = "UnexpectedExpressionCharacter"  -> "Fatal"
      [] kind = "UnrecognizedTag"                -> "Warn"
      [] kind = "MissingExpressionEnd"           -> "Fatal"
      [] kind = "IllegalEntity"                  -> "Error"
      [] kind = "IncompleteTag"                  -> "Fatal"
      [] kind = "MissingEndTag"                  -> "Error"
      [] kind = "IllegalNamePrefix"              -> "Warn"
      [] kind = "InvalidAttributePrefix"         -> "Warn"
      [] kind = "InvalidAttributeName"           -> "Warn"
      [] kind = "InvalidAttributeValue"          -> "Note"
      [] kind = "InvalidAttribute"               -> "Warn"
      [] kind = "DuplicatedAttribute"            -> "Warn"
      [] kind = "DuplicatedName"                 -> "Note"
      [] kind = "AvoidUppercaseLetters"          -> "Warn"
      [] kind = "UnexpectedWhitespace"           -> "Note"
      [] kind = "MissingAttributeValue"          -> "Error"
      [] kind = "DataBindingNotAllowed"          -> "Note"
      [] kind = "InvalidIdentifier"              -> "Fatal"
      [] kind = "InvalidScopeName"               -> "Note"
      [] kind = "ChildNodesNotAllowed"           -> "Error"
      [] kind = "IllegalEscapeSequence"          -> "Error"
      [] kind = "IncompleteConditionExpression"  -> "Fatal"
      [] kind = "UnmatchedBracket"               -> "Fatal"
      [] kind = "UnmatchedParenthesis"           -> "Fatal"
      [] kind = "MissingModuleName"              -> "Error"
      [] kind = "MissingSourcePath"              -> "Error"
      [] kind = "UnsupportedSyntax"              -> "Error"

\* enum ParseErrorLevel: the discriminants (Note = 1, then in order), which
\* the derived Ord compares
ParseErrorLevel ==
    [l \in {"Note", "Warn", "Error", "Fatal"} |->
        CASE l = "Note" -> 1 [] l = "Warn" -> 2 [] l = "Error" -> 3
          [] l = "Fatal" -> 4]

\* a >= b of the derived PartialOrd
LevelGeq(a, b) == ParseErrorLevel[a] >= ParseErrorLevel[b]

\* ParseError::level
ErrorLevel(e) == level(e.kind)

\* prevent_success that counts a warning as a failure
prevent_success_from_warn(e) == LevelGeq(ErrorLevel(e), "Warn")

\* ParseError::prevent_success
prevent_success(e) == LevelGeq(ErrorLevel(e), "Error")

-----------------------------------------------------------------------------
(* The inputs the calls are made with.                                     *)

\* the delimiters of skip_until_before / skip_until_after: "{{", "\n"
Delimiters == {<<123, 123>>, CH_lf}

\* the literals of peek_str and consume_str*: "{{", "{", " "
Literals == {<<123, 123>>, CH_lbrace, CH_space}

\* the forbidden-follow arrays of consume_str_except_followed: ["{"], ["\n", "x"]
ExceptArrays == {<<CH_lbrace>>, <<CH_lf, CH_x>>}

\* the predicates of consume_str_except_followed_char, as the sets they
\* reject: |ch| ch == '{', char::is_whitespace over the model's characters
RejectPredicates == {{123}, {32, 10, 12288}}

\* the kinds the sessions of the model record
KindsRecorded == {"UnexpectedCharacter", "AvoidUppercaseLetters"}

\* the sources the sessions are constructed over
Sources ==
    Texts(MaxChars) \cup {SRC_braces3, SRC_braces2x, SRC_line_emoji_brace,
                          SRC_wide_blank_brace}

-----------------------------------------------------------------------------
(* The state machine.                                                      *)

\* the fields of the session a call can change
Session ==
    [cur_index |-> cur_index, line |-> line, utf16_col |-> utf16_col,
     scopes |-> scopes, inside_dynamic_tree |-> inside_dynamic_tree,
     auto_skip_whitespace |-> auto_skip_whitespace, warnings |-> warnings]

\* the cursor fields of a session record
CursorOf(s) == [cur_index |-> s.cur_index, line |-> s.line, utf16_col |-> s.utf16_col]

\* ParseState::new(path, content)
New(p, content) ==
    /\ path = p
    /\ whole_str = NewText(content, U32_MAX)
    /\ cur_index = NewCursor.cur_index
    /\ line = NewCursor.line
    /\ utf16_col = NewCursor.utf16_col
    /\ scopes = <<>>
    /\ inside_dynamic_tree = 0
    /\ auto_skip_whitespace = FALSE
    /\ warnings = <<>>
    /\ panicked = NewPanics(content, U32_MAX)

InitOver(sources) ==
    /\ \E content \in sources :
          /\ New("TEST", content)
          /\ last = [op |-> "new", arg |-> <<content>>, ret |-> <<>>,
                     pre |-> Session, recorded |-> <<>>]
    /\ frames = <<>>

Init == InitOver(Sources)

\* a method that moves the cursor returns: r is [c, ret]
Returns(op, arg, r) ==
    /\ cur_index' = r.c.cur_index
    /\ line' = r.c.line
    /\ utf16_col' = r.c.utf16_col
    /\ last' = [op |-> op, arg |-> arg, ret |-> r.ret, pre |-> Session,
                recorded |-> <<>>]
    /\ UNCHANGED <<path, whole_str, scopes, inside_dynamic_tree,
                   auto_skip_whitespace, warnings, frames, panicked>>

\* a slice index check fails in op: nothing returns
Panics(op, arg) ==
    /\ panicked' = TRUE
    /\ last' = [op |-> "panic", arg |-> <<op>> \o arg, ret |-> <<>>,
                pre |-> Session, recorded |-> <<>>]
    /\ UNCHANGED <<path, whole_str, cur_index, line, utf16_col, scopes,
                   inside_dynamic_tree, auto_skip_whitespace, warnings,
                   frames>>

SkipBytes ==
    \E count \in 0..StrLen(cur_str(Cursor)) :
        /\ ~panicked
        /\ IF skip_bytes_panics(Cursor, count)
           THEN Panics("skip_bytes", <<count>>)
           ELSE Returns("skip_bytes", <<count>>,
                        [c |-> skip_bytes(Cursor, count), ret |-> <<>>])

SkipUntilBefore ==
    \E until \in Delimiters :
        /\ ~panicked
        /\ Returns("skip_until_before", <<until>>, skip_until_before(Cursor, until))

SkipUntilAfter ==
    \E until \in Delimiters :
        /\ ~panicked
        /\ Returns("skip_until_after", <<until>>, skip_until_after(Cursor, until))

PeekN ==
    \E N \in 0..MaxPeek :
        /\ ~panicked
        /\ Returns("peek_n", <<N>>, peek_n(Cursor, N))

Peek ==
    \E I \in 0..MaxPeek :
        /\ ~panicked
        /\ Returns("peek", <<I>>, peek(Cursor, I))

PeekStr ==
    \E s \in Literals :
        /\ ~panicked
        /\ Returns("peek_str", <<s>>,
                   [c |-> peek_str(Cursor, s).c, ret |-> <<peek_str(Cursor, s).ret>>])

ConsumeStrExceptFollowed ==
    \E s \in Literals, excepts \in ExceptArrays :
        /\ ~panicked
        /\ Returns("consume_str_except_followed", <<s, excepts>>,
                   consume_str_except_followed(Cursor, s, excepts))

ConsumeStrExceptFollowedChar ==
    \E s \in Literals, reject_followed \in RejectPredicates :
        /\ ~panicked
        /\ Returns("consume_str_except_followed_char", <<s, reject_followed>>,
                   consume_str_except_followed_char(Cursor, s, reject_followed))

ConsumeStr ==
    \E s \in Literals :
        /\ ~panicked
        /\ Returns("consume_str", <<s>>, consume_str(Cursor, s))

NextCharAsStr ==
    /\ ~panicked
    /\ Returns("next_char_as_str", <<>>,
               [c |-> next_char_as_str(Cursor).c, ret |-> <<next_char_as_str(Cursor).ret>>])

NextChar ==
    /\ ~panicked
    /\ Returns("next", <<>>, next(Cursor))

SkipWhitespace ==
    /\ ~panicked
    /\ Returns("skip_whitespace", <<>>, skip_whitespace(Cursor))

\* what parse_on_auto_whitespace / parse_off_auto_whitespace can change
Toggle == [auto_skip_whitespace |-> auto_skip_whitespace]

\* a closure is entered: the frame holds the locals of the wrapper (saved)
\* and, for the properties, what the wrapper can change as it is at the
\* call (entry) and the diagnostics recorded since
Enters(kind, saved, entry) ==
    /\ ~panicked
    /\ Len(frames) < MaxDepth
    /\ frames' = Append(frames, [kind |-> kind, saved |-> saved,
                                 entry |-> entry, recorded |-> <<>>])
    /\ last' = [op |-> "enter", arg |-> <<kind>>, ret |-> <<>>, pre |-> entry,
                recorded |-> <<>>]

Top == frames[Len(frames)]

Pop == SubSeq(frames, 1, Len(frames) - 1)

\* try_parse(f), up to the call of f
TryParseCall ==
    /\ Enters("try_parse", try_parse_snapshot(Cursor), Session)
    /\ UNCHANGED <<path, whole_str, cur_index, line, utf16_col, scopes,
                   inside_dynamic_tree, auto_skip_whitespace, warnings, panicked>>

\* for the properties: the try_parse that f ended with, if it ended with
\* one (what it returned, the cursor at its call and as its step left it)
InnerAttempt ==
    IF last.op = "try_parse"
    THEN <<[ret |-> last.ret, pre |-> CursorOf(last.pre),
            left |-> CursorOf(last.left)]>>
    ELSE <<>>

\* try_parse that takes the scope stack and the dynamic-region counter
\* back as well
TryParseReturn_rolls_back_scopes ==
    \E ret \in {None, Some("T")} :
        /\ ~panicked
        /\ frames # <<>> /\ Top.kind = "try_parse"
        /\ LET c == try_parse_return(Cursor, Top.saved, ret)
           IN  /\ cur_index' = c.cur_index
               /\ line' = c.line
               /\ utf16_col' = c.utf16_col
        /\ scopes' = IF ret = None THEN Top.entry.scopes ELSE scopes
        /\ inside_dynamic_tree' =
              IF ret = None THEN Top.entry.inside_dynamic_tree
              ELSE inside_dynamic_tree
        /\ frames' = Pop
        /\ last' = [op |-> "try_parse", arg |-> <<>>, ret |-> ret,
                    pre |-> Top.entry, recorded |-> Top.recorded,
                    left |-> Session, inner |-> InnerAttempt]
        /\ UNCHANGED <<path, whole_str, auto_skip_whitespace, warnings,
                       panicked>>

\* try_parse(f), from the return of f with ret
TryParseReturn ==
    \E ret \in {None, Some("T")} :
        /\ ~panicked
        /\ frames # <<>> /\ Top.kind = "try_parse"
        /\ LET c == try_parse_return(Cursor, Top.saved, ret)
           IN  /\ cur_index' = c.cur_index
               /\ line' = c.line
               /\ utf16_col' = c.utf16_col
        /\ frames' = Pop
        /\ last' = [op |-> "try_parse", arg |-> <<>>, ret |-> ret,
                    pre |-> Top.entry, recorded |-> Top.recorded,
                    left |-> Session, inner |-> InnerAttempt]
        /\ UNCHANGED <<path, whole_str, scopes, inside_dynamic_tree,
                       auto_skip_whitespace, warnings, panicked>>

\* parse_on_auto_whitespace(f) / parse_off_auto_whitespace(f): the toggle
\* while f runs, and when f has returned
auto_whitespace_during(kind) == kind = "parse_on_auto_whitespace"

\* a wrapper that switches the toggle off when f has returned
auto_whitespace_after_off(saved) == FALSE

auto_whitespace_after(saved) == saved.prev

ParseAutoWhitespaceCall(kind) ==
    /\ Enters(kind, [prev |-> auto_skip_whitespace], Toggle)
    /\ auto_skip_whitespace' = auto_whitespace_during(kind)
    /\ UNCHANGED <<path, whole_str, cur_index, line, utf16_col, scopes,
                   inside_dynamic_tree, warnings, panicked>>

ParseAutoWhitespaceReturn(kind) ==
    /\ ~panicked
    /\ frames # <<>> /\ Top.kind = kind
    /\ auto_skip_whitespace' = auto_whitespace_after(Top.saved)
    /\ frames' = Pop
    /\ last' = [op |-> kind, arg |-> <<>>, ret |-> <<"T">>, pre |-> Top.entry,
                recorded |-> Top.recorded, left |-> Session]
    /\ UNCHANGED <<path, whole_str, cur_index, line, utf16_col, scopes,
                   inside_dynamic_tree, warnings, panicked>>

ParseOnAutoWhitespaceCall == ParseAutoWhitespaceCall("parse_on_auto_whitespace")

ParseOnAutoWhitespaceReturn == ParseAutoWhitespaceReturn("parse_on_auto_whitespace")

ParseOffAutoWhitespaceCall == ParseAutoWhitespaceCall("parse_off_auto_whitespace")

ParseOffAutoWhitespaceReturn == ParseAutoWhitespaceReturn("parse_off_auto_whitespace")

\* ParseError { path, kind, location }
ParseError(kind, location) == [path |-> path, kind |-> kind, location |-> location]

\* add_warning that inserts at the front of the list
add_warning_at_front(ws, kind, location) == <<ParseError(kind, location)>> \o ws

add_warning(ws, kind, location) == Append(ws, ParseError(kind, location))

\* the diagnostic is recorded, inside every closure in progress
Records(op, kind, location) ==
    /\ ~panicked
    /\ Len(warnings) < MaxWarnings
    /\ warnings' = add_warning(warnings, kind, location)
    /\ frames' = [k \in 1..Len(frames) |->
                    [frames[k] EXCEPT !.recorded =
                        Append(@, ParseError(kind, location))]]
    /\ last' = [op |-> op, arg |-> <<kind, location>>, ret |-> <<>>,
                pre |-> Session, recorded |-> <<>>]
    /\ UNCHANGED <<path, whole_str, cur_index, line, utf16_col, scopes,
                   inside_dynamic_tree, auto_skip_whitespace, panicked>>

\* add_warning(kind, location), with the span from the start of the line
AddWarning ==
    \E kind \in KindsRecorded :
        Records("add_warning", kind,
                Span([line |-> line, utf16_col |-> 0], position(Cursor)))

AddWarningAtCurrentPosition ==
    \E kind \in KindsRecorded :
        LET pos == position(Cursor)
        IN  Records("add_warning_at_current_position", kind, Span(pos, pos))

\* take_warnings that hands the list out and keeps it
take_warnings_keeps(ws) == [ws |-> ws, ret |-> ws]

\* std::mem::replace(&mut self.warnings, vec![])
take_warnings(ws) == [ws |-> <<>>, ret |-> ws]

\* take_warnings(): the caller of parse drains the list, no closure running
TakeWarnings ==
    /\ ~panicked
    /\ frames = <<>>
    /\ warnings # <<>>
    /\ warnings' = take_warnings(warnings).ws
    /\ last' = [op |-> "take_warnings", arg |-> <<>>,
                ret |-> take_warnings(warnings).ret,
                pre |-> Session, recorded |-> <<>>]
    /\ UNCHANGED <<path, whole_str, cur_index, line, utf16_col, scopes,
                   inside_dynamic_tree, auto_skip_whitespace, frames, panicked>>

\* the cursor primitives
NextPrimitives ==
    \/ SkipBytes
    \/ SkipUntilBefore
    \/ SkipUntilAfter
    \/ PeekN
    \/ Peek
    \/ PeekStr
    \/ ConsumeStrExceptFollowed
    \/ ConsumeStrExceptFollowedChar
    \/ ConsumeStr
    \/ NextCharAsStr
    \/ NextChar
    \/ SkipWhitespace

\* the wrappers that run a closure
NextWrappers ==
    \/ TryParseCall
    \/ TryParseReturn
    \/ ParseOnAutoWhitespaceCall
    \/ ParseOnAutoWhitespaceReturn
    \/ ParseOffAutoWhitespaceCall
    \/ ParseOffAutoWhitespaceReturn

\* the cursor primitives and the wrappers
NextCursor == NextPrimitives \/ NextWrappers

\* the diagnostics
NextDiagnostics ==
    \/ AddWarning
    \/ AddWarningAtCurrentPosition
    \/ TakeWarnings

Next == NextCursor \/ NextDiagnostics

\* every source, the cursor primitives and the wrappers
Spec == Init /\ [][NextCursor]_vars

\* the scenario sources, the cursor primitives alone
SpecScenario == InitOver({SRC_until, SRC_emoji_line}) /\ [][NextPrimitives]_vars

\* the sources of the diagnostics sessions
SourcesDiag == {CH_lf, CH_emoji}

InitDiag == InitOver(SourcesDiag)

\* the calls of the diagnostics sessions: the diagnostics, the wrappers,
\* and next to move the cursor
NextDiag == NextChar \/ NextWrappers \/ NextDiagnostics

SpecDiag == InitDiag /\ [][NextDiag]_vars

\* the names the grammar binds
ScopeNames == {"item"}

\* the grammar layer changes the scope stack or the counter of dynamic
\* regions: nothing else of the session changes
Scoped(op, arg) ==
    /\ ~panicked
    /\ last' = [op |-> op, arg |-> arg, ret |-> <<>>, pre |-> Session,
                recorded |-> <<>>]
    /\ UNCHANGED <<path, whole_str, cur_index, line, utf16_col,
                   auto_skip_whitespace, warnings, frames, panicked>>

\* a construct that introduces a name pushes (name, declaring span)
ScopePush ==
    \E name \in ScopeNames :
        /\ Len(scopes) < MaxScopes
        /\ scopes' = Append(scopes, <<name, Span(position(Cursor), position(Cursor))>>)
        /\ UNCHANGED inside_dynamic_tree
        /\ Scoped("scopes.push", <<name>>)

\* and pops it when its body has been parsed
ScopePop ==
    /\ scopes # <<>>
    /\ scopes' = SubSeq(scopes, 1, Len(scopes) - 1)
    /\ UNCHANGED inside_dynamic_tree
    /\ Scoped("scopes.pop", <<>>)

\* the scan enters a dynamic region
DynamicEnter ==
    /\ inside_dynamic_tree < MaxScopes
    /\ inside_dynamic_tree' = inside_dynamic_tree + 1
    /\ UNCHANGED scopes
    /\ Scoped("inside_dynamic_tree += 1", <<>>)

\* and leaves it
DynamicExit ==
    /\ inside_dynamic_tree > 0
    /\ inside_dynamic_tree' = inside_dynamic_tree - 1
    /\ UNCHANGED scopes
    /\ Scoped("inside_dynamic_tree -= 1", <<>>)

\* the nesting context
NextScopes == ScopePush \/ ScopePop \/ DynamicEnter \/ DynamicExit

\* the sources of the sessions with a nesting context
SourcesContext == {CH_emoji}

\* whitespace where none is allowed: the grammar records a note at the
\* cursor
NoteUnexpectedWhitespace ==
    LET pos == position(Cursor)
    IN  Records("add_warning_at_current_position", "UnexpectedWhitespace",
                Span(pos, pos))

\* the nesting context, try_parse, auto-skipped whitespace, a diagnostic
\* at the cursor, and next to move the cursor
\* one attempt at a time, which may be made with whitespace auto-skipped
ContextTryParseCall ==
    /\ \A k \in 1..Len(frames) : frames[k].kind # "try_parse"
    /\ TryParseCall

ContextParseOnAutoWhitespaceCall ==
    /\ frames = <<>>
    /\ ParseOnAutoWhitespaceCall

NextContext ==
    \/ NextChar
    \/ ContextTryParseCall
    \/ TryParseReturn
    \/ ContextParseOnAutoWhitespaceCall
    \/ ParseOnAutoWhitespaceReturn
    \/ NextScopes
    \/ NoteUnexpectedWhitespace

SpecContext == InitOver(SourcesContext) /\ [][NextContext]_vars

\* a call that reads the session and leaves it as it is
Answers(op, arg, ret) ==
    /\ ~panicked
    /\ last' = [op |-> op, arg |-> arg, ret |-> ret, pre |-> Session,
                recorded |-> <<>>]
    /\ UNCHANGED <<path, whole_str, cur_index, line, utf16_col, scopes,
                   inside_dynamic_tree, auto_skip_whitespace, warnings, frames,
                   panicked>>

\* kind.level(), for any member of the enum
Level ==
    \E kind \in ParseErrorKinds : Answers("level", <<kind>>, <<level(kind)>>)

\* prevent_success() of a diagnostic of any kind at the current position
PreventSuccess ==
    \E kind \in ParseErrorKinds :
        LET e == ParseError(kind, Span(position(Cursor), position(Cursor)))
        IN  Answers("prevent_success", <<e>>, <<prevent_success(e)>>)

\* the severity calls, and next to move the cursor
NextSeverity == NextChar \/ Level \/ PreventSuccess

SpecSeverity == InitDiag /\ [][NextSeverity]_vars

\* sources around the longest text a session keeps: one byte under the
\* maximum, the maximum in ASCII, the maximum ending in an ASCII character
\* behind four-byte characters, and four-byte characters alone up to one
\* byte over the maximum (the maximum plus one is a multiple of four)
SourcesLong ==
    {Repeat(CH_lbrace, U32_MAX - 1),
     Repeat(CH_lbrace, U32_MAX),
     CH_lbrace \o CH_lbrace \o Repeat(CH_emoji, (U32_MAX - 3) \div 4) \o CH_lbrace,
     Repeat(CH_emoji, (U32_MAX + 1) \div 4)}

\* the calls of the long sessions: one character, or up to a delimiter
NextLong == NextCharAsStr \/ NextChar \/ SkipUntilAfter

SpecLong == InitOver(SourcesLong) /\ [][NextLong]_vars

\* one iteration of a scanning loop: the call, and the test of what it
\* returned, "end" for the report of the end of input and "more" otherwise
Iterates(op, c, end) ==
    /\ ~panicked
    /\ Returns(op, <<>>, [c |-> c, ret |-> <<IF end THEN "end" ELSE "more">>])

\* the loop has been told that the input has ended
ReportedEnd ==
    last.op \in {"loop next_char_as_str", "loop next"} /\ last.ret = <<"end">>

\* `loop { if ps.next_char_as_str().is_empty() { break } }`
DriverNextCharAsStr ==
    /\ ~ReportedEnd
    /\ LET r == next_char_as_str(Cursor)
       IN  Iterates("loop next_char_as_str", r.c, StrLen(r.ret) = 0)

\* `while ps.next().is_some() {}`
DriverNext ==
    /\ ~ReportedEnd
    /\ LET r == next(Cursor)
       IN  Iterates("loop next", r.c, r.ret = None)

DriverStep == DriverNextCharAsStr \/ DriverNext

\* a scanning loop, inside any of the wrappers
NextDriver == DriverStep \/ NextWrappers

\* what an iteration of a scanning loop changes: every DriverStep moves
\* the cursor, or is another call than the last, or reports the end
DriverView == <<cur_index, last.op, ReportedEnd>>

\* a try_parse has just returned None
TryParseFailed == last.op = "try_parse" /\ last.ret = None

\* the loop goes on until the end is reported, and the attempts that fail
\* and take the cursor back come to an end
\* the sources the loops scan: empty, whitespace alone, and the two with
\* characters of every width
SourcesDriver == {<<>>, CH_space, SRC_line_emoji_brace, SRC_wide_blank_brace}

SpecDriver ==
    /\ InitOver(SourcesDriver)
    /\ [][NextDriver]_vars
    /\ WF_DriverView(DriverStep)
    /\ <>[]~TryParseFailed

-----------------------------------------------------------------------------
(* Properties.                                                             *)

\* C1: when the step of try_parse returns None, whatever the step did,
\* try_parse returns None with cur_index, line and utf16_col equal to their
\* values before the call.
C1_TryParseNoneRestoresCursor ==
    last.op = "try_parse" /\ last.ret = None
        => Cursor = CursorOf(last.pre)

\* a failed try_parse whose step had moved all three cursor fields
C1_Witness ==
    /\ last.op = "try_parse" /\ last.ret = None
    /\ last.left.cur_index > last.pre.cur_index
    /\ last.left.line # last.pre.line
    /\ last.left.utf16_col # last.pre.utf16_col

\* C2: the diagnostics a failed step of try_parse recorded are all in the
\* list when try_parse has returned, in the order recorded and after the
\* diagnostics that were there before the call; the rollback leaves the list
\* as the step left it.
C2_DiagnosticsSurviveRollback ==
    last.op = "try_parse" /\ last.ret = None
        => /\ warnings = last.pre.warnings \o last.recorded
           /\ warnings = last.left.warnings

\* a failed try_parse called with a diagnostic in the list, whose step
\* recorded another one and moved the cursor
C2_Witness ==
    /\ last.op = "try_parse" /\ last.ret = None
    /\ last.pre.warnings # <<>>
    /\ last.recorded # <<>>
    /\ last.recorded[1] # last.pre.warnings[1]
    /\ last.left.cur_index > cur_index

\* the position re-derived from scratch, byte by byte, over the text s:
\* a newline starts a line, a continuation byte adds nothing, the first byte
\* of a four-byte character adds two code units, any other first byte one
RECURSIVE Rederive(_, _, _, _)
Rederive(s, k, ln, col) ==
    IF k > Len(s) THEN [line |-> ln, utf16_col |-> col]
    ELSE IF s[k] = 10 THEN Rederive(s, k + 1, ln + 1, 0)
    ELSE IF s[k] >= 128 /\ s[k] < 192 THEN Rederive(s, k + 1, ln, col)
    ELSE IF s[k] >= 240 THEN Rederive(s, k + 1, ln, col + 2)
    ELSE Rederive(s, k + 1, ln, col + 1)

PositionFromScratch(s) == Rederive(s, 1, 0, 0)

\* p <= q in (line, then column) order
PosLeq(p, q) == p.line < q.line \/ (p.line = q.line /\ p.utf16_col <= q.utf16_col)

\* the calls that advance the cursor without backtracking
Advances ==
    {"skip_bytes", "skip_until_before", "skip_until_after", "peek_n", "peek",
     "peek_str", "consume_str_except_followed", "consume_str_except_followed_char",
     "consume_str", "next_char_as_str", "next", "skip_whitespace"}

\* C3: in every reachable state (line, utf16_col) is the position re-derived
\* from scratch over whole_str[0..cur_index] (the number of newlines, and the
\* UTF-16 length of the text after the last one), and an advance that is not
\* backtracked never decreases the position.
C3_PositionIsRederived ==
    /\ position(Cursor) = PositionFromScratch(SliceTo(whole_str, cur_index))
    /\ last.op \in Advances => PosLeq(position(last.pre), position(Cursor))

\* what the code keeps instead: the column is the re-derived one, the line
\* is one more than the number of newlines, and advances never decrease
C3_CodeLineIsOneMore ==
    LET scratch == PositionFromScratch(SliceTo(whole_str, cur_index))
    IN  /\ utf16_col = scratch.utf16_col
        /\ line = scratch.line + 1
        /\ last.op \in Advances => PosLeq(position(last.pre), position(Cursor))

\* C4: a fresh session is at line 0, utf16_col 0, which the Display format
\* of a diagnostic shows as line 1, column 1.
C4_FreshSessionIsZeroBased ==
    last.op = "new" /\ ~panicked
        => /\ position(Cursor) = [line |-> 0, utf16_col |-> 0]
           /\ DisplayLocation(Span(position(Cursor), position(Cursor))) = <<1, 1, 1, 1>>

\* the delimiter p is at byte offset i of s
MatchesAt(s, i, p) == i + Len(p) <= Len(s) /\ \A k \in 1..Len(p) : s[i + k] = p[k]

\* p occurs in s at or after byte offset from
OccursFrom(s, from, p) == \E i \in from..Len(s) : MatchesAt(s, i, p)

\* the byte offset of the first occurrence of p in s at or after from
FirstMatch(s, from, p) ==
    CHOOSE i \in from..Len(s) :
        MatchesAt(s, i, p) /\ \A j \in from..(i - 1) : ~MatchesAt(s, j, p)

\* C5: on a fresh session over "  abc{{until}}", skip_until_before("{{")
\* returns "  abc" and leaves the cursor at byte 5, line 0, column 5; in
\* general, when the delimiter occurs in the remaining text, the call returns
\* the text up to the first occurrence and leaves the cursor at its first byte.
C5_SkipUntilBefore ==
    last.op = "skip_until_before"
        => /\ ( /\ whole_str = SRC_until
                /\ last.pre.cur_index = 0
                /\ last.arg = <<<<123, 123>>>> )
              => /\ last.ret = Some(<<32, 32, 97, 98, 99>>)
                 /\ cur_index = 5
                 /\ position(Cursor) = [line |-> 0, utf16_col |-> 5]
           /\ OccursFrom(whole_str, last.pre.cur_index, last.arg[1])
              => LET i == FirstMatch(whole_str, last.pre.cur_index, last.arg[1])
                 IN  /\ last.ret = Some(SubSeq(whole_str, last.pre.cur_index + 1, i))
                     /\ cur_index = i

\* what the code does in that scenario: all of C5 except that the line is 1
C5_CodeLineIsOne ==
    last.op = "skip_until_before"
        => /\ ( /\ whole_str = SRC_until
                /\ last.pre.cur_index = 0
                /\ last.arg = <<<<123, 123>>>> )
              => /\ last.ret = Some(<<32, 32, 97, 98, 99>>)
                 /\ cur_index = 5
                 /\ position(Cursor) = [line |-> 1, utf16_col |-> 5]
           /\ OccursFrom(whole_str, last.pre.cur_index, last.arg[1])
              => LET i == FirstMatch(whole_str, last.pre.cur_index, last.arg[1])
                 IN  /\ last.ret = Some(SubSeq(whole_str, last.pre.cur_index + 1, i))
                     /\ cur_index = i

\* the text that remained when the last call was made
RemainingBefore == SliceFrom(whole_str, last.pre.cur_index)

\* s begins with a whitespace character
BeginsWithWhitespace(s) == s # <<>> /\ is_whitespace(DecodeAt(s, 0))

\* in rem, the literal s is followed by a member of excepts
FollowedByExcept(rem, s, excepts) ==
    \E k \in 1..Len(excepts) : MatchesAt(rem, Len(s), excepts[k])

\* the two cases of consume_str_except_followed(s, excepts), for the last call
C6_Cases ==
    LET s == last.arg[1]
        excepts == last.arg[2]
        rem == RemainingBefore
    IN  /\ MatchesAt(rem, 0, s) /\ FollowedByExcept(rem, s, excepts)
           => last.ret = None /\ Cursor = CursorOf(last.pre)
        /\ MatchesAt(rem, 0, s) /\ ~FollowedByExcept(rem, s, excepts)
           => /\ last.ret = Some(Span(position(last.pre), position(Cursor)))
              /\ cur_index = last.pre.cur_index + Len(s)

\* C6 as claimed: consume_str_except_followed(s, excepts) returns None and
\* leaves the cursor unchanged when the remaining text starts with s followed
\* by a member of excepts, and succeeds, advancing exactly len(s) bytes and
\* returning the span of the advance, when it starts with s followed by none.
C6_ConsumeExceptFollowed ==
    last.op = "consume_str_except_followed" => C6_Cases

\* C6 as amended: the same, when the whitespace-auto-skip toggle is off or
\* the remaining text does not begin with a whitespace character.
C6_ConsumeExceptFollowedNoSkip ==
    /\ last.op = "consume_str_except_followed"
    /\ ~last.pre.auto_skip_whitespace \/ ~BeginsWithWhitespace(RemainingBefore)
    => C6_Cases

\* "{{" except before "{" consumed from "{{x" with the toggle on: 2 bytes
C6_Witness ==
    /\ last.op = "consume_str_except_followed"
    /\ last.arg = <<<<123, 123>>, <<CH_lbrace>>>>
    /\ whole_str = SRC_braces2x
    /\ last.pre.auto_skip_whitespace
    /\ last.pre.cur_index = 0
    /\ last.ret # None
    /\ cur_index = 2

\* the number of characters of the text s
CharCount(s) == Cardinality({i \in 1..Len(s) : s[i] < 128 \/ s[i] >= 192})

\* every character of s is whitespace
AllWhitespace(s) ==
    \A k \in 1..Len(char_indices(s)) : is_whitespace(char_indices(s)[k][2])

\* no call of peek_n panics
C7_NoPanic == last.op = "panic" => last.arg[1] # "peek_n"

\* the last call is a peek_n::<N> made with fewer than N characters left
C7_TooFewLeft == last.op = "peek_n" /\ CharCount(RemainingBefore) < last.arg[1]

\* C7 as claimed: peek_n::<N> with fewer than N characters left returns None
\* without panicking and leaves cur_index, line and utf16_col as they were,
\* the toggle on or off.
C7_PeekNPastEnd ==
    /\ C7_NoPanic
    /\ C7_TooFewLeft => last.ret = None /\ Cursor = CursorOf(last.pre)

\* C7 as amended: it returns None without panicking; with the toggle off
\* the cursor is unchanged, with the toggle on the cursor has moved over the
\* leading whitespace and nothing else.
C7_PeekNPastEndSkipsOnlyWhitespace ==
    /\ C7_NoPanic
    /\ C7_TooFewLeft
       => /\ last.ret = None
          /\ ~last.pre.auto_skip_whitespace => Cursor = CursorOf(last.pre)
          /\ last.pre.auto_skip_whitespace
             => LET skipped == SubSeq(whole_str, last.pre.cur_index + 1, cur_index)
                IN  /\ cur_index >= last.pre.cur_index
                    /\ AllWhitespace(skipped)
                    /\ ~BeginsWithWhitespace(SliceFrom(whole_str, cur_index))
                    /\ position(Cursor) =
                         Rederive(skipped, 1, last.pre.line, last.pre.utf16_col)

\* peek_n::<2> returns None with the toggle on, one whitespace character
\* left: the cursor has moved over it
C7_Witness ==
    /\ C7_TooFewLeft
    /\ last.arg[1] = 2
    /\ last.pre.auto_skip_whitespace
    /\ last.ret = None
    /\ cur_index > last.pre.cur_index

\* C8: next_char_as_str at end of input returns the empty slice and changes
\* nothing; otherwise it returns the 1 to 4 bytes of exactly one character
\* and advances the byte offset by that many bytes, onto a boundary.
C8_NextCharAsStr ==
    last.op = "next_char_as_str"
        => IF last.pre.cur_index = Len(whole_str)
           THEN last.ret = <<<<>>>> /\ Session = last.pre
           ELSE LET w == Utf8Width(whole_str[last.pre.cur_index + 1])
                IN  /\ w \in 1..4
                    /\ last.ret = <<SubSeq(whole_str, last.pre.cur_index + 1,
                                           last.pre.cur_index + w)>>
                    /\ cur_index = last.pre.cur_index + w
                    /\ \/ cur_index = Len(whole_str)
                       \/ whole_str[cur_index + 1] < 128
                       \/ whole_str[cur_index + 1] >= 192

\* next_char_as_str returned the four bytes of a character, with more behind
C8_Witness ==
    /\ last.op = "next_char_as_str"
    /\ last.ret = <<CH_emoji>>
    /\ cur_index = last.pre.cur_index + 4
    /\ cur_index < Len(whole_str)

\* C9: when the delimiter does not occur in the remaining text,
\* skip_until_before and skip_until_after return None with the cursor at the
\* end of input, at the position of the whole text, and no further; when it
\* occurs, skip_until_after returns the text before the first occurrence and
\* leaves the cursor len(delimiter) bytes past its start.
C9_SkipUntilNotFound ==
    last.op \in {"skip_until_before", "skip_until_after"}
        => IF ~OccursFrom(whole_str, last.pre.cur_index, last.arg[1])
           THEN /\ last.ret = None
                /\ cur_index = Len(whole_str)
                /\ ended(Cursor)
                /\ position(Cursor) = PositionFromScratch(whole_str)
           ELSE last.op = "skip_until_after"
                => LET i == FirstMatch(whole_str, last.pre.cur_index, last.arg[1])
                   IN  /\ last.ret = Some(SubSeq(whole_str, last.pre.cur_index + 1, i))
                       /\ cur_index = i + Len(last.arg[1])

\* what the code does: all of C9, with the line one more than the number of
\* newlines of the whole text
C9_CodeLineIsOneMore ==
    last.op \in {"skip_until_before", "skip_until_after"}
        => IF ~OccursFrom(whole_str, last.pre.cur_index, last.arg[1])
           THEN /\ last.ret = None
                /\ cur_index = Len(whole_str)
                /\ ended(Cursor)
                /\ utf16_col = PositionFromScratch(whole_str).utf16_col
                /\ line = PositionFromScratch(whole_str).line + 1
           ELSE last.op = "skip_until_after"
                => LET i == FirstMatch(whole_str, last.pre.cur_index, last.arg[1])
                   IN  /\ last.ret = Some(SubSeq(whole_str, last.pre.cur_index + 1, i))
                       /\ cur_index = i + Len(last.arg[1])

\* the byte offset at which the line of the cursor starts
LineStart ==
    IF \E i \in 1..cur_index : whole_str[i] = 10
    THEN CHOOSE i \in 1..cur_index :
            whole_str[i] = 10 /\ \A j \in (i + 1)..cur_index : whole_str[j] # 10
    ELSE 0

\* the characters before the cursor on its line that are outside the Basic
\* Multilingual Plane (four bytes), and the others (one to three bytes)
NonBmpBefore == {i \in (LineStart + 1)..cur_index : whole_str[i] >= 240}

BmpBefore ==
    {i \in (LineStart + 1)..cur_index : whole_str[i] < 128 \/ whole_str[i] \in 192..239}

\* C10: utf16_col is the number of UTF-16 code units before the cursor on
\* its line: 2 for each character outside the Basic Multilingual Plane, 1
\* for each other character, whatever its byte length.
C10_Utf16Column ==
    utf16_col = 2 * Cardinality(NonBmpBefore) + Cardinality(BmpBefore)

\* one skip_bytes over a non-BMP character and the ASCII character behind
\* it: column 3, over 2 characters and 5 bytes
C10_Witness ==
    /\ last.op = "skip_bytes" /\ last.arg = <<5>>
    /\ SubSeq(whole_str, last.pre.cur_index + 1, cur_index) = CH_emoji \o CH_lbrace
    /\ last.pre.utf16_col = 0
    /\ utf16_col = 3

\* the calls that record a diagnostic
Adds == {"add_warning", "add_warning_at_current_position"}

\* C11: the diagnostics list is append-only and ordered: a call that records
\* a diagnostic appends it to the end of the list and leaves the rest as it
\* was, take_warnings returns the whole list in that order and leaves the
\* list empty, and no other call (cursor operation, wrapper, rollback)
\* changes the list; after a drain the list starts again from empty.
C11_AppendOnlyOrdered ==
    [][ /\ last'.op \in Adds
           => warnings' = Append(warnings,
                                 ParseError(last'.arg[1], last'.arg[2]))
        /\ last'.op = "take_warnings"
           => last'.ret = warnings /\ warnings' = <<>>
        /\ last'.op \notin Adds \cup {"take_warnings"}
           => warnings' = warnings ]_<<warnings, last.op>>

\* take_warnings returned two different diagnostics, the one recorded
\* before a cursor move first, and left the list empty
C11_Witness ==
    /\ last.op = "take_warnings"
    /\ Len(last.ret) = 2
    /\ last.ret[1].location.start # last.ret[2].location.start
    /\ last.ret[1].location.start = [line |-> NewCursor.line, utf16_col |-> 0]
    /\ last.ret[2].kind # last.ret[1].kind
    /\ warnings = <<>>

\* the four severities
Severities == {"Note", "Warn", "Error", "Fatal"}

\* a < b in the order of the severities
SeverityLess(a, b) == ~LevelGeq(a, b)

\* C12: every ParseErrorKind has exactly one severity, one of Note, Warn,
\* Error and Fatal; the severities are totally ordered Note < Warn < Error <
\* Fatal; and prevent_success() of a diagnostic is true exactly when the
\* severity of its kind is Error or Fatal.
C12_SeverityAndPreventSuccess ==
    /\ last.op = "level"
       => /\ last.arg[1] \in ParseErrorKinds
          /\ Len(last.ret) = 1 /\ last.ret[1] \in Severities
    /\ DOMAIN ParseErrorLevel = Severities
    /\ SeverityLess("Note", "Warn") /\ SeverityLess("Warn", "Error")
    /\ SeverityLess("Error", "Fatal")
    /\ \A a, b \in Severities :
          (a = b) # (SeverityLess(a, b) # SeverityLess(b, a))
    /\ \A a, b, c \in Severities :
          SeverityLess(a, b) /\ SeverityLess(b, c) => SeverityLess(a, c)
    /\ last.op = "prevent_success"
       => last.ret = <<level(last.arg[1].kind) \in {"Error", "Fatal"}>>

\* prevent_success() answered FALSE for a Warn diagnostic away from the
\* start of the text
C12_Witness ==
    /\ last.op = "prevent_success"
    /\ level(last.arg[1].kind) = "Warn"
    /\ last.ret = <<FALSE>>
    /\ cur_index > 0

\* C13: ParseState::new never fails: a source of at least u32::MAX bytes
\* is truncated to exactly u32::MAX - 1 bytes and the session is returned
\* without a panic, also when the byte at offset u32::MAX - 1 is inside a
\* multi-byte character; a shorter source is kept whole.
C13_NewNeverFails ==
    last.op = "new"
        => LET content == last.arg[1]
           IN  /\ ~panicked
               /\ Len(content) >= U32_MAX
                  => whole_str = SubSeq(content, 1, U32_MAX - 1)
               /\ Len(content) < U32_MAX => whole_str = content

\* what the code does: the same, unless the source has at least u32::MAX
\* bytes and the byte at offset u32::MAX - 1 continues a character, where
\* the slice panics
C13_CodePanicsInsideCharacter ==
    last.op = "new"
        => LET content == last.arg[1]
               inside == /\ Len(content) >= U32_MAX
                         /\ Len(content) > U32_MAX - 1
                         /\ content[U32_MAX] \in 128..191
           IN  /\ panicked <=> inside
               /\ ~panicked /\ Len(content) >= U32_MAX
                  => whole_str = SubSeq(content, 1, U32_MAX - 1)
               /\ Len(content) < U32_MAX => whole_str = content

\* the byte offset i of the text s is the start of a character or the end
OnBoundary(s, i) == i = Len(s) \/ s[i + 1] < 128 \/ s[i + 1] >= 192

\* C14: in every reachable state 0 <= cur_index <= len(whole_str) and
\* cur_index is on a character boundary; every step other than the restore
\* of a failed try_parse leaves cur_index greater than or equal to its
\* previous value, and the restore sets it to a value less than or equal to
\* the one it had when the failed step returned, the snapshot taken at entry.
C14_CursorInRangeAndMonotone ==
    /\ [](cur_index \in 0..Len(whole_str) /\ OnBoundary(whole_str, cur_index))
    /\ [][ IF last'.op = "try_parse" /\ last'.ret = None
           THEN /\ cur_index' <= cur_index
                /\ cur_index' = last'.pre.cur_index
                /\ cur_index = last'.left.cur_index
           ELSE cur_index' >= cur_index ]_cur_index

\* a failed try_parse took the cursor back from the end of a text of one
\* two-byte, one three-byte and one one-byte character to the boundary
\* behind the first
C14_Witness ==
    /\ last.op = "try_parse" /\ last.ret = None
    /\ whole_str = SRC_wide_blank_brace
    /\ last.left.cur_index = Len(whole_str)
    /\ cur_index = 2

\* the byte length of the leading whitespace of the text s, from offset i
RECURSIVE LeadingWhitespace(_, _)
LeadingWhitespace(s, i) ==
    IF i < Len(s) /\ is_whitespace(DecodeAt(s, i))
    THEN LeadingWhitespace(s, i + Utf8Width(s[i + 1]))
    ELSE i

\* the text s with its leading whitespace removed
WithoutLeadingWhitespace(s) == SliceFrom(s, LeadingWhitespace(s, 0))

\* the calls that look ahead
Lookaheads == {"peek", "peek_n", "peek_str"}

\* the answer of the lookahead op with argument a over the text
LookaheadOver(op, a, text) ==
    CASE op = "peek"
           -> IF a < CharCount(text) THEN Some(chars(text)[a + 1]) ELSE None
      [] op = "peek_n"
           -> IF a <= CharCount(text) THEN Some(SubSeq(chars(text), 1, a))
              ELSE None
      [] op = "peek_str" -> <<MatchesAt(text, 0, a)>>

\* C15: with the whitespace-auto-skip toggle on, peek, peek_n and peek_str
\* answer as over the remaining text without its leading whitespace and
\* leave the cursor at the first non-whitespace character or at the end of
\* input, having moved over the leading whitespace and nothing else; with
\* the toggle off they answer over the text at the cursor and leave
\* cur_index, line and utf16_col unchanged.
C15_LookaheadSkipsOnlyWhitespace ==
    last.op \in Lookaheads
        => LET rem == RemainingBefore
               ws == LeadingWhitespace(rem, 0)
           IN  IF last.pre.auto_skip_whitespace
               THEN /\ last.ret = LookaheadOver(last.op, last.arg[1],
                                                WithoutLeadingWhitespace(rem))
                    /\ cur_index = last.pre.cur_index + ws
                    /\ \/ cur_index = Len(whole_str)
                       \/ ~is_whitespace(DecodeAt(whole_str, cur_index))
                    /\ position(Cursor) =
                         Rederive(SliceTo(rem, ws), 1, last.pre.line,
                                  last.pre.utf16_col)
               ELSE /\ last.ret = LookaheadOver(last.op, last.arg[1], rem)
                    /\ Cursor = CursorOf(last.pre)

\* peek::<0> with the toggle on, at an ideographic space before "{": the
\* answer is '{' and the cursor is on it, three bytes and one column on
C15_Witness ==
    /\ last.op = "peek" /\ last.arg = <<0>>
    /\ last.pre.auto_skip_whitespace
    /\ whole_str = SRC_wide_blank_brace
    /\ last.pre.cur_index = 2
    /\ last.ret = Some(123)
    /\ cur_index = 5
    /\ utf16_col = last.pre.utf16_col + 1

\* C16: skip_whitespace returns a span exactly when a whitespace character
\* is at the cursor: if none is (or the input has ended) it returns None and
\* changes nothing; otherwise it returns the span from the position before
\* the first skipped character to the position after the last, and the
\* cursor is then at a non-whitespace character or at the end of input, so
\* that a call repeated at once returns None and changes nothing.
C16_SkipWhitespaceSpan ==
    last.op = "skip_whitespace"
        => LET rem == RemainingBefore
               ws == LeadingWhitespace(rem, 0)
               again == skip_whitespace(Cursor)
           IN  /\ (last.ret # None) <=> BeginsWithWhitespace(rem)
               /\ ~BeginsWithWhitespace(rem)
                  => last.ret = None /\ Session = last.pre
               /\ BeginsWithWhitespace(rem)
                  => /\ last.ret = Some(Span(position(last.pre), position(Cursor)))
                     /\ cur_index = last.pre.cur_index + ws
                     /\ ws > 0
                     /\ position(Cursor) =
                          Rederive(SliceTo(rem, ws), 1, last.pre.line,
                                   last.pre.utf16_col)
               /\ \/ cur_index = Len(whole_str)
                  \/ ~is_whitespace(DecodeAt(whole_str, cur_index))
               /\ again.ret = None /\ again.c = Cursor

\* skip_whitespace over the newline before an emoji: the span runs from the
\* start of the first line to the start of the next
C16_Witness ==
    /\ last.op = "skip_whitespace"
    /\ whole_str = SRC_line_emoji_brace
    /\ last.pre.cur_index = 0
    /\ cur_index = 1
    /\ last.ret # None
    /\ last.ret[1].start.line + 1 = last.ret[1].end.line
    /\ last.ret[1].end.utf16_col = 0

\* C17: where input remains, one call of next_char_as_str, or of next,
\* strictly increases cur_index (next returns a character unless the toggle
\* is on and only whitespace remains); and a loop that calls a consuming
\* primitive until it reports the end of input reaches ended() after
\* finitely many calls, when the failing try_parse attempts come to an end.
C17_ProgressAndTermination ==
    /\ [](last.op \in {"loop next_char_as_str", "loop next"}
            /\ last.pre.cur_index < Len(whole_str)
          => /\ cur_index > last.pre.cur_index
             /\ last.op = "loop next_char_as_str" => last.ret = <<"more">>
             /\ last.op = "loop next"
                => (last.ret = <<"end">>
                      <=> /\ last.pre.auto_skip_whitespace
                          /\ AllWhitespace(RemainingBefore)))
    /\ [](ReportedEnd => ended(Cursor))
    /\ <>(ReportedEnd /\ ended(Cursor))

\* next, with the toggle on and only whitespace left, reported the end
\* after moving the cursor over the whitespace to the end of input
C17_Witness ==
    /\ last.op = "loop next" /\ last.ret = <<"end">>
    /\ last.pre.auto_skip_whitespace
    /\ last.pre.cur_index < Len(whole_str)
    /\ cur_index > last.pre.cur_index
    /\ ended(Cursor)

\* C18: nested backtracking composes: when an inner try_parse succeeds,
\* advancing the cursor, inside an outer try_parse whose step then returns
\* None, the cursor after the outer call is the outer snapshot, not the
\* inner result; when an inner try_parse fails inside an outer step that
\* succeeds, the cursor after the outer call has the advances the outer
\* step made outside the failed attempt and no other; a successful
\* try_parse leaves the cursor where its step left it.
C18_NestedBacktracking ==
    last.op = "try_parse"
        => /\ last.ret # None => Cursor = CursorOf(last.left)
           /\ last.ret = None /\ last.inner # <<>> /\ last.inner[1].ret # None
              => /\ Cursor = CursorOf(last.pre)
                 /\ last.inner[1].left.cur_index > cur_index
                    => Cursor # last.inner[1].left
           /\ last.ret # None /\ last.inner # <<>> /\ last.inner[1].ret = None
              => /\ Cursor = last.inner[1].pre
                 /\ cur_index >= last.pre.cur_index

\* an outer try_parse failed after an advance of its own and an inner
\* try_parse that succeeded after a further advance: the cursor is back at
\* the outer snapshot
C18_Witness ==
    /\ last.op = "try_parse" /\ last.ret = None
    /\ last.inner # <<>> /\ last.inner[1].ret # None
    /\ last.inner[1].left.cur_index > last.inner[1].pre.cur_index
    /\ last.inner[1].pre.cur_index > last.pre.cur_index
    /\ cur_index = last.pre.cur_index

\* C19: the rollback of a failed try_parse touches cur_index, line and
\* utf16_col only: the scope stack, the dynamic-region counter, the
\* whitespace-auto-skip toggle and the diagnostics list are as the failed
\* step left them (a scope it pushed and a count it added are still there).
C19_RollbackIsCursorOnly ==
    last.op = "try_parse" /\ last.ret = None
        => /\ Cursor = CursorOf(last.pre)
           /\ scopes = last.left.scopes
           /\ inside_dynamic_tree = last.left.inside_dynamic_tree
           /\ auto_skip_whitespace = last.left.auto_skip_whitespace
           /\ warnings = last.left.warnings

\* a failed try_parse whose step moved the cursor, pushed a scope, entered
\* a dynamic region and recorded a diagnostic: the cursor alone is back
C19_Witness ==
    /\ last.op = "try_parse" /\ last.ret = None
    /\ last.left.cur_index > last.pre.cur_index
    /\ cur_index = last.pre.cur_index
    /\ Len(scopes) > Len(last.pre.scopes)
    /\ inside_dynamic_tree > last.pre.inside_dynamic_tree
    /\ Len(warnings) > Len(last.pre.warnings)

\* the wrappers of the closures that are running, innermost last
Wrappers ==
    {k \in 1..Len(frames) :
        frames[k].kind \in {"parse_on_auto_whitespace", "parse_off_auto_whitespace"}}

Innermost(ks) == CHOOSE k \in ks : \A j \in ks : j <= k

\* C20: parse_on_auto_whitespace(f) and parse_off_auto_whitespace(f) run f
\* with the toggle true and false, and when f returns the toggle is what it
\* was before the call, for any nesting of the two and with try_parse,
\* successful or failed; a fresh session has the toggle off.
C20_ToggleScopedToWrapper ==
    /\ auto_skip_whitespace =
          IF Wrappers = {} THEN FALSE
          ELSE frames[Innermost(Wrappers)].kind = "parse_on_auto_whitespace"
    /\ last.op = "new" => ~auto_skip_whitespace
    /\ last.op = "enter" /\ last.arg = <<"parse_on_auto_whitespace">>
          => auto_skip_whitespace
    /\ last.op = "enter" /\ last.arg = <<"parse_off_auto_whitespace">>
          => ~auto_skip_whitespace
    /\ last.op \in {"parse_on_auto_whitespace", "parse_off_auto_whitespace",
                    "try_parse"}
          => auto_skip_whitespace = last.pre.auto_skip_whitespace

\* parse_off_auto_whitespace has returned inside parse_on_auto_whitespace:
\* its f ran with the toggle off and the toggle is on again
C20_Witness ==
    /\ last.op = "parse_off_auto_whitespace"
    /\ ~last.left.auto_skip_whitespace
    /\ last.pre.auto_skip_whitespace
    /\ auto_skip_whitespace
    /\ frames # <<>> /\ Top.kind = "parse_on_auto_whitespace"

====
